---------------------------- MODULE Spec2Model ----------------------------
(***************************************************************************)
(* Model of diesel_pg_hstore's binary wire codec (src/src/lib.rs, mod      *)
(* impls): FromSql::from_sql with HstoreIterator, ToSql::to_sql with       *)
(* write_pascal_string, and the literal renderer QueryFragment::walk_ast.  *)
(*                                                                         *)
(* Byte slices and strings are sequences of bytes (0..255).  A Rust        *)
(* Option<T> is a sequence of length 0 (None) or 1 (Some).  A              *)
(* HashMap<String, String> is a set of <<key, value>> pairs with unique    *)
(* keys.                                                                   *)
(***************************************************************************)
EXTENDS Integers, Sequences, FiniteSets

(***************************************************************************)
(* Bounds of the model.                                                    *)
(***************************************************************************)
\* largest number of entries laid out in an input wire buffer
MaxEntries == 3
\* largest number of pairs of a Container handed to to_sql / walk_ast
MaxPairs == 2

(***************************************************************************)
(* Rust's Option.                                                          *)
(***************************************************************************)
None == << >>
Some(x) == << x >>
IsSome(o) == Len(o) = 1
Unwrap(o) == o[1]

(***************************************************************************)
(* byteorder: 4-byte big-endian two's complement i32.                      *)
(***************************************************************************)
\* the four big-endian bytes of a non-negative number below 2^31
BeBytes(u) ==
    << u \div 16777216, (u \div 65536) % 256, (u \div 256) % 256, u % 256 >>

\* WriteBytesExt::write_i32::<BigEndian>: a negative n is the bitwise
\* complement of -(n+1)
WriteI32(n) ==
    IF n >= 0 THEN BeBytes(n)
    ELSE [i \in 1..4 |-> 255 - BeBytes(-(n + 1))[i]]

\* (mutant) the four bytes read in little-endian order
I32OfLittleEndian(b) ==
    IF b[4] < 128
    THEN b[4] * 16777216 + b[3] * 65536 + b[2] * 256 + b[1]
    ELSE -((255 - b[4]) * 16777216 + (255 - b[3]) * 65536
           + (255 - b[2]) * 256 + (255 - b[1])) - 1

\* ReadBytesExt::read_i32::<BigEndian>: the i32 held by four big-endian bytes
I32Of(b) ==
    IF b[1] < 128
    THEN b[1] * 16777216 + b[2] * 65536 + b[3] * 256 + b[4]
    ELSE -((255 - b[1]) * 16777216 + (255 - b[2]) * 65536
           + (255 - b[3]) * 256 + (255 - b[4])) - 1

\* the prefix / remainder of a slice, <[u8]>::split_at for mid <= len
Take(s, n) == SubSeq(s, 1, n)
Drop(s, n) == SubSeq(s, n + 1, Len(s))

\* ReadBytesExt::read_i32::<BigEndian> on &[u8] can be served
CanReadI32(s) == Len(s) >= 4

\* str::from_utf8 succeeds.  The inputs of this model hold ASCII bytes and
\* the byte 0xFF, which occurs in no well-formed UTF-8 sequence, so a slice
\* is valid exactly when it holds no byte above 0x7F.
Utf8Valid(s) == \A i \in 1..Len(s) : s[i] < 128

(***************************************************************************)
(* HashMap<String, String> as a set of pairs.                              *)
(***************************************************************************)
EmptyMap == {}
KeysOf(m) == {p[1] : p \in m}
\* (mutant) the value of a key already present is kept
InsertKeepFirst(m, k, v) == IF k \in KeysOf(m) THEN m ELSE m \cup {<<k, v>>}

\* HashMap::insert: replaces the value of a key already present
Insert(m, k, v) == {p \in m : p[1] # k} \cup {<<k, v>>}

(***************************************************************************)
(* Results handed to the caller.                                           *)
(***************************************************************************)
Pending == [tag |-> "Pending", err |-> "", val |-> EmptyMap]
Ok(m) == [tag |-> "Ok", err |-> "", val |-> m]
Err(e) == [tag |-> "Err", err |-> e, val |-> EmptyMap]
Panic == [tag |-> "Panic", err |-> "", val |-> EmptyMap]

(***************************************************************************)
(* Inputs.                                                                 *)
(***************************************************************************)
\* the text 1,b=>2: a value that holds the delimiters of the literal
Spliceable == << 49, 44, 98, 61, 62, 50 >>

\* keys and values of the Containers and of the well-formed wire entries
KeyStrings == { << >>, <<97>>, <<98>> }
ValueStrings == { << >>, <<49>>, <<50>>, Spliceable }

\* a wire entry: key length, key bytes, value length, value bytes
EntryBytes(e) == WriteI32(Len(e.k)) \o e.k \o WriteI32(e.vlen) \o e.v

\* entries the decoder reads through: a present value (two values for one
\* of the keys), the NULL sentinel, or another negative value length
WireEntries ==
    { [k |-> <<97>>, vlen |-> Len(v), v |-> v] : v \in {<<49>>, <<50>>} }
    \cup { [k |-> <<98>>, vlen |-> 1, v |-> <<49>>] }
    \cup { [k |-> k, vlen |-> -1, v |-> << >>] : k \in {<<97>>, <<98>>} }
    \cup { [k |-> <<97>>, vlen |-> -2, v |-> << >>] }

\* what follows the entries: nothing, a stray byte, or a defective entry
\* (negative key length, key length past the end, invalid UTF-8 key, value
\* length cut off, value length past the end, invalid UTF-8 value)
WireRests ==
    { << >>,
      <<0>>,
      WriteI32(-5) \o <<97>> \o WriteI32(1) \o <<49>>,
      WriteI32(3) \o <<97>>,
      WriteI32(1) \o <<255>> \o WriteI32(1) \o <<49>>,
      WriteI32(1) \o <<97>> \o <<0, 0>>,
      WriteI32(1) \o <<97>> \o WriteI32(2) \o <<49>>,
      WriteI32(1) \o <<97>> \o WriteI32(1) \o <<255>> }

\* declared counts: every count around the number of entries and two
\* negative ones
WireCounts == (0..(MaxEntries + 1)) \cup {-1, -256}

RECURSIVE Flatten(_)
Flatten(es) ==
    IF es = << >> THEN << >> ELSE EntryBytes(Head(es)) \o Flatten(Tail(es))

SeqsUpTo(S, n) == UNION { [1..m -> S] : m \in 0..n }

\* the description of an input buffer
\* the description of an input buffer: the declared count n and its four
\* bytes, the entries, and what follows them; two more buffers end inside
\* the count prefix
WireInputs ==
    { [n |-> n, prefix |-> WriteI32(n), entries |-> es, rest |-> r] :
        n \in WireCounts, es \in SeqsUpTo(WireEntries, MaxEntries), r \in WireRests }
    \cup { [n |-> 0, prefix |-> p, entries |-> << >>, rest |-> << >>] : p \in { << >>, <<0, 0>> } }

WireBytes(w) == w.prefix \o Flatten(w.entries) \o w.rest

\* the Containers: unique keys, at most MaxPairs pairs
Containers ==
    { m \in SUBSET (KeyStrings \X ValueStrings) :
        /\ Cardinality(m) <= MaxPairs
        /\ \A p, q \in m : p[1] = q[1] => p = q }

\* the orders in which HashMap's iterator may yield the pairs of m
Orders(m) ==
    { s \in [1..Cardinality(m) -> m] : \A i, j \in DOMAIN s : s[i] = s[j] => i = j }

VARIABLES
    op,         \* the entry point under way: "from_sql", "to_sql", "walk_ast"
    wire,       \* description of the buffer given to from_sql (never changes)
    bytes,      \* from_sql's argument: Option<&[u8]>
    pc,         \* position in the code
    buf,        \* from_sql: the unread slice (HstoreIterator.buf)
    count,      \* from_sql: the entry count read
    remaining,  \* HstoreIterator.remaining
    key_len,    \* consume: key length read
    key,        \* consume: key
    value_len,  \* consume: value length read
    value,      \* consume: Option<&str>
    map,        \* from_sql: the map being built
    result,     \* what the entry point returned
    self,       \* to_sql / walk_ast: the Hstore (self.0)
    iter,       \* the order in which self.0 is iterated
    pos,        \* position of the iteration
    out,        \* to_sql: what the writer received, Option<Vec<u8>>
    max,        \* walk_ast: self.0.len()
    ind,        \* walk_ast: index of the pair
    sql,        \* walk_ast: the text pushed to the AstPass
    s_len,      \* write_pascal_string: s.len(), a usize in two 16-bit halves
    method,     \* dsl / functions: the builder called
    other,      \* dsl / functions: the right operand given to the builder
    node,       \* dsl / functions: the expression node built
    query,      \* dsl / functions: the query text of the node
    answer      \* what the server answers for the node

decodeVars == << remaining, key_len, key, value_len, value, map >>
selfVars == << self, iter >>
renderVars == << max, ind, sql >>
extVars == << s_len, method, other, node, query, answer >>

vars == << op, wire, bytes, pc, buf, count, remaining, key_len, key,
           value_len, value, map, result, self, iter, pos, out, max, ind, sql, extVars >>

NoWire == [n |-> 0, prefix |-> << >>, entries |-> << >>, rest |-> << >>]

\* no right operand, no node, no answer
NoOperand == [kind |-> "none", map |-> EmptyMap, text |-> << >>, arr |-> << >>]
NoNode ==
    [name |-> "", token |-> "", fix |-> "", ty |-> "", left |-> EmptyMap, right |-> NoOperand]
NoAnswer ==
    [kind |-> "none", bool |-> FALSE, map |-> EmptyMap, text |-> None, arr |-> << >>]

\* the variables of the expression builders before any of them ran
Ext0 ==
    /\ method = ""
    /\ other = NoOperand
    /\ node = NoNode
    /\ query = << >>
    /\ answer = NoAnswer

Locals0 ==
    /\ buf = << >>
    /\ count = 0
    /\ remaining = 0
    /\ key_len = 0
    /\ key = << >>
    /\ value_len = 0
    /\ value = None
    /\ map = EmptyMap
    /\ result = Pending
    /\ pos = 0
    /\ out = None
    /\ max = 0
    /\ ind = 0
    /\ sql = << >>

\* from_sql on a buffer the server sent
InitWire ==
    /\ op = "from_sql"
    /\ wire \in WireInputs
    /\ bytes = Some(WireBytes(wire))
    /\ pc = "from_sql"
    /\ self = EmptyMap
    /\ iter = << >>
    /\ s_len = [hi |-> 0, lo |-> 0]
    /\ Ext0
    /\ Locals0

\* from_sql on a column value that is SQL NULL (build_from_row: row.take()
\* yields None)
InitNull ==
    /\ op = "from_sql"
    /\ wire = NoWire
    /\ bytes = None
    /\ pc = "from_sql"
    /\ self = EmptyMap
    /\ iter = << >>
    /\ s_len = [hi |-> 0, lo |-> 0]
    /\ Ext0
    /\ Locals0

\* to_sql or walk_ast on a Container, iterated in any order
InitSelf ==
    /\ op \in {"to_sql", "walk_ast"}
    /\ wire = NoWire
    /\ bytes = None
    /\ pc = op
    /\ self \in Containers
    /\ iter \in Orders(self)
    /\ s_len = [hi |-> 0, lo |-> 0]
    /\ Ext0
    /\ Locals0

\* byte lengths of a string: short ones, and the ones around 2^31 and 2^32
LongSizes ==
    { [hi |-> 0, lo |-> 0], [hi |-> 0, lo |-> 1], [hi |-> 1, lo |-> 0],
      [hi |-> 32767, lo |-> 65535], [hi |-> 32768, lo |-> 0],
      [hi |-> 65535, lo |-> 65535], [hi |-> 65536, lo |-> 0] }

\* write_pascal_string on a string of any length
InitLong ==
    /\ op = "write_pascal_string"
    /\ wire = NoWire
    /\ bytes = None
    /\ pc = op
    /\ self = EmptyMap
    /\ iter = << >>
    /\ s_len \in LongSizes
    /\ Ext0
    /\ Locals0

\* the builders of HstoreOpExtensions (dsl.rs) and the two functions of
\* functions.rs that the properties below are about
Methods ==
    { "get_value", "get_array", "concat", "has_key", "has_all_keys", "has_any_keys",
      "contains", "is_contained_by", "remove_key", "remove_keys", "difference",
      "to_flat_array", "hstore_to_array", "hstore_delete_matching" }

\* the column values and operands of the expression builders
DslMaps ==
    { m \in SUBSET ({<<97>>, <<98>>} \X {<<49>>, <<50>>}) :
        \A p, q \in m : p[1] = q[1] => p = q }
DslTexts == { <<97>>, <<98>>, <<99>> }
DslOperands ==
    { [kind |-> "none", map |-> EmptyMap, text |-> << >>, arr |-> << >>] }
    \cup { [kind |-> "Hstore", map |-> m, text |-> << >>, arr |-> << >>] : m \in DslMaps }
    \cup { [kind |-> "Text", map |-> EmptyMap, text |-> t, arr |-> << >>] : t \in DslTexts }
    \cup { [kind |-> "Array<Text>", map |-> EmptyMap, text |-> << >>, arr |-> a] :
              a \in SeqsUpTo(DslTexts, 2) }

\* a builder of dsl.rs or functions.rs called on the column value self
InitDsl ==
    /\ op = "dsl"
    /\ wire = NoWire
    /\ bytes = None
    /\ pc = "dsl"
    /\ self \in DslMaps
    /\ iter = << >>
    /\ s_len = [hi |-> 0, lo |-> 0]
    /\ method \in Methods
    /\ other \in DslOperands
    /\ node = NoNode
    /\ query = << >>
    /\ answer = NoAnswer
    /\ Locals0

Init == InitWire \/ InitNull \/ InitSelf \/ InitLong \/ InitDsl

(***************************************************************************)
(* FromSql::from_sql                                                       *)
(***************************************************************************)
Return(r) ==
    /\ result' = r
    /\ pc' = "done"

\* (mutant) an absent column value is taken for an empty Hstore
FromSqlBytesNullAsEmpty ==
    /\ pc = "from_sql"
    /\ IF IsSome(bytes)
       THEN /\ buf' = Unwrap(bytes)
            /\ pc' = "read_count"
            /\ UNCHANGED result
       ELSE /\ Return(Ok(EmptyMap))
            /\ UNCHANGED buf
    /\ UNCHANGED << op, wire, bytes, count, remaining, key_len, key, value_len, value, map,
                    self, iter, pos, out, max, ind, sql, extVars >>

\* lines 388-391: match bytes
FromSqlBytes ==
    /\ pc = "from_sql"
    /\ IF IsSome(bytes)
       THEN /\ buf' = Unwrap(bytes)
            /\ pc' = "read_count"
            /\ UNCHANGED result
       ELSE /\ Return(Err("NotFound"))
            /\ UNCHANGED buf
    /\ UNCHANGED << op, wire, bytes, count, remaining, key_len, key, value_len, value, map,
                    self, iter, pos, out, max, ind, sql, extVars >>

\* line 392: buf.read_i32()?
FromSqlReadCount ==
    /\ pc = "read_count"
    /\ IF CanReadI32(buf)
       THEN /\ count' = I32Of(Take(buf, 4))
            /\ buf' = Drop(buf, 4)
            /\ pc' = "check_count"
            /\ UNCHANGED result
       ELSE /\ Return(Err("UnexpectedEof"))
            /\ UNCHANGED << buf, count >>
    /\ UNCHANGED << op, wire, bytes, remaining, key_len, key, value_len, value, map,
                    self, iter, pos, out, max, ind, sql, extVars >>

\* lines 394-403: reject a negative count, build the iterator and the map
FromSqlCheckCount ==
    /\ pc = "check_count"
    /\ IF count < 0
       THEN /\ Return(Err("Invalid entry count for hstore"))
            /\ UNCHANGED << remaining, map >>
       ELSE /\ remaining' = count
            /\ map' = EmptyMap
            /\ pc' = "consume"
            /\ UNCHANGED result
    /\ UNCHANGED << op, wire, bytes, buf, count, key_len, key, value_len, value,
                    self, iter, pos, out, max, ind, sql, extVars >>

(***************************************************************************)
(* HstoreIterator::consume                                                 *)
(***************************************************************************)
\* (mutant) the buffer is not required to be exhausted after the last entry
ConsumeNoTrailingCheck ==
    /\ pc = "consume"
    /\ IF remaining = 0
       THEN /\ Return(Ok(map))
            /\ UNCHANGED remaining
       ELSE /\ remaining' = remaining - 1
            /\ pc' = "read_key_len"
            /\ UNCHANGED result
    /\ UNCHANGED << op, wire, bytes, buf, count, key_len, key, value_len, value, map,
                    self, iter, pos, out, max, ind, sql, extVars >>

\* (mutant) the end of the buffer ends the iteration, whatever remaining is
ConsumeStopAtEnd ==
    /\ pc = "consume"
    /\ IF buf = << >>
       THEN /\ Return(Ok(map))
            /\ UNCHANGED remaining
       ELSE IF remaining = 0
       THEN /\ Return(Err("invalid buffer size"))
            /\ UNCHANGED remaining
       ELSE /\ remaining' = remaining - 1
            /\ pc' = "read_key_len"
            /\ UNCHANGED result
    /\ UNCHANGED << op, wire, bytes, buf, count, key_len, key, value_len, value, map,
                    self, iter, pos, out, max, ind, sql, extVars >>

\* lines 458-465; Ok(None) ends next() (line 503) and the loop of from_sql,
\* which returns Ok(Hstore(map)) (line 409)
Consume ==
    /\ pc = "consume"
    /\ IF remaining = 0
       THEN /\ IF buf # << >>
               THEN Return(Err("invalid buffer size"))
               ELSE Return(Ok(map))
            /\ UNCHANGED remaining
       ELSE /\ remaining' = remaining - 1
            /\ pc' = "read_key_len"
            /\ UNCHANGED result
    /\ UNCHANGED << op, wire, bytes, buf, count, key_len, key, value_len, value, map,
                    self, iter, pos, out, max, ind, sql, extVars >>

\* line 467
ConsumeReadKeyLen ==
    /\ pc = "read_key_len"
    /\ IF CanReadI32(buf)
       THEN /\ key_len' = I32Of(Take(buf, 4))
            /\ buf' = Drop(buf, 4)
            /\ pc' = "check_key_len"
            /\ UNCHANGED result
       ELSE /\ Return(Err("UnexpectedEof"))
            /\ UNCHANGED << buf, key_len >>
    /\ UNCHANGED << op, wire, bytes, count, remaining, key, value_len, value, map,
                    self, iter, pos, out, max, ind, sql, extVars >>

\* (mutant) the sign of the key length is not tested
ConsumeCheckKeyLenAbsent ==
    /\ pc = "check_key_len"
    /\ pc' = "split_key"
    /\ UNCHANGED result
    /\ UNCHANGED << op, wire, bytes, buf, count, remaining, key_len, key, value_len, value, map,
                    self, iter, pos, out, max, ind, sql, extVars >>

\* lines 468-470
ConsumeCheckKeyLen ==
    /\ pc = "check_key_len"
    /\ IF key_len < 0
       THEN Return(Err("invalid key length"))
       ELSE /\ pc' = "split_key"
            /\ UNCHANGED result
    /\ UNCHANGED << op, wire, bytes, buf, count, remaining, key_len, key, value_len, value, map,
                    self, iter, pos, out, max, ind, sql, extVars >>

\* lines 471-473: split_at panics when mid > len
ConsumeSplitKey ==
    /\ pc = "split_key"
    /\ IF key_len > Len(buf)
       THEN /\ Return(Panic)
            /\ UNCHANGED << key, buf >>
       ELSE IF ~Utf8Valid(Take(buf, key_len))
       THEN /\ Return(Err("Utf8Error"))
            /\ UNCHANGED << key, buf >>
       ELSE /\ key' = Take(buf, key_len)
            /\ buf' = Drop(buf, key_len)
            /\ pc' = "read_value_len"
            /\ UNCHANGED result
    /\ UNCHANGED << op, wire, bytes, count, remaining, key_len, value_len, value, map,
                    self, iter, pos, out, max, ind, sql, extVars >>

\* line 475
ConsumeReadValueLen ==
    /\ pc = "read_value_len"
    /\ IF CanReadI32(buf)
       THEN /\ value_len' = I32Of(Take(buf, 4))
            /\ buf' = Drop(buf, 4)
            /\ pc' = "split_value"
            /\ UNCHANGED result
       ELSE /\ Return(Err("UnexpectedEof"))
            /\ UNCHANGED << buf, value_len >>
    /\ UNCHANGED << op, wire, bytes, count, remaining, key_len, key, value, map,
                    self, iter, pos, out, max, ind, sql, extVars >>

\* the test of line 476: which value lengths stand for a NULL value
IsNullLen(n) == n < 0

\* lines 476-486
ConsumeSplitValue ==
    /\ pc = "split_value"
    /\ IF IsNullLen(value_len)
       THEN /\ value' = None
            /\ pc' = "next"
            /\ UNCHANGED << buf, result >>
       ELSE IF value_len > Len(buf)
       THEN /\ Return(Panic)
            /\ UNCHANGED << value, buf >>
       ELSE IF ~Utf8Valid(Take(buf, value_len))
       THEN /\ Return(Err("Utf8Error"))
            /\ UNCHANGED << value, buf >>
       ELSE /\ value' = Some(Take(buf, value_len))
            /\ buf' = Drop(buf, value_len)
            /\ pc' = "next"
            /\ UNCHANGED result
    /\ UNCHANGED << op, wire, bytes, count, remaining, key_len, key, value_len, map,
                    self, iter, pos, out, max, ind, sql, extVars >>

(***************************************************************************)
(* HstoreIterator::next and the loop of from_sql                           *)
(***************************************************************************)
\* (mutant) an entry without a value is yielded with the empty string
NextEntryNullAsEmpty ==
    /\ pc = "next"
    /\ IF IsSome(value)
       THEN map' = Insert(map, key, Unwrap(value))
       ELSE map' = Insert(map, key, << >>)
    /\ pc' = "consume"
    /\ UNCHANGED << op, wire, bytes, buf, count, remaining, key_len, key, value_len, value, result,
                    self, iter, pos, out, max, ind, sql, extVars >>

\* lines 496-500: an entry with a value is yielded and inserted (lines
\* 405-407); an entry without one is skipped
NextEntry ==
    /\ pc = "next"
    /\ IF IsSome(value)
       THEN map' = Insert(map, key, Unwrap(value))
       ELSE UNCHANGED map
    /\ pc' = "consume"
    /\ UNCHANGED << op, wire, bytes, buf, count, remaining, key_len, key, value_len, value, result,
                    self, iter, pos, out, max, ind, sql, extVars >>

(***************************************************************************)
(* ToSql::to_sql and write_pascal_string                                   *)
(***************************************************************************)
\* `as i32` of a usize: the low 32 bits, read as two's complement
\* a usize is held in two 16-bit halves, hi * 65536 + lo, so that lengths
\* of 2^31 and more can be written down
Wide(n) == [hi |-> n \div 65536, lo |-> n % 65536]
UsizeAsI32(u) ==
    IF u.hi % 65536 < 32768
    THEN (u.hi % 65536) * 65536 + u.lo
    ELSE ((u.hi % 65536) - 65536) * 65536 + u.lo
AsI32(n) == UsizeAsI32(Wide(n))

\* write_pascal_string, lines 444-449: what it appends to buf
WritePascalString(s) == WriteI32(AsI32(Len(s))) \o s

\* write_pascal_string, lines 445-446, for a string of s_len bytes; the
\* bytes of the string (line 447) are left out of buf
WritePascalStringLong ==
    /\ pc = "write_pascal_string"
    /\ buf' = buf \o WriteI32(UsizeAsI32(s_len))
    /\ Return(Ok(EmptyMap))
    /\ UNCHANGED << op, wire, bytes, count, pos, out >>
    /\ UNCHANGED << extVars, decodeVars, selfVars, renderVars >>

\* lines 423-426: the placeholder of the count, count = 0
ToSqlStart ==
    /\ pc = "to_sql"
    /\ buf' = << 0, 0, 0, 0 >>
    /\ count' = 0
    /\ pos' = 1
    /\ pc' = "to_sql_loop"
    /\ UNCHANGED << op, wire, bytes, result, out >>
    /\ UNCHANGED << extVars, decodeVars, selfVars, renderVars >>

\* lines 427-432: one turn of the loop over &self.0
ToSqlPair ==
    /\ pc = "to_sql_loop"
    /\ pos <= Len(iter)
    /\ count' = count + 1
    /\ buf' = buf \o WritePascalString(iter[pos][1]) \o WritePascalString(iter[pos][2])
    /\ pos' = pos + 1
    /\ UNCHANGED << op, wire, bytes, pc, result, out >>
    /\ UNCHANGED << extVars, decodeVars, selfVars, renderVars >>

\* (mutant) the placeholder is left as it was written
CountPrefixUnpatched(n) == << 0, 0, 0, 0 >>

\* the count prefix written by lines 434-437
CountPrefix(n) == WriteI32(AsI32(n))

\* lines 434-437: the count is written over the first four bytes of buf
ToSqlCount ==
    /\ pc = "to_sql_loop"
    /\ pos > Len(iter)
    /\ buf' = CountPrefix(count) \o Drop(buf, 4)
    /\ pc' = "to_sql_write"
    /\ UNCHANGED << op, wire, bytes, count, pos, result, out >>
    /\ UNCHANGED << extVars, decodeVars, selfVars, renderVars >>

\* lines 439-440: out.write_all(&buf), Ok(IsNull::No)
ToSqlWrite ==
    /\ pc = "to_sql_write"
    /\ out' = Some(buf)
    /\ Return(Ok(EmptyMap))
    /\ UNCHANGED << op, wire, bytes, buf, count, pos >>
    /\ UNCHANGED << extVars, decodeVars, selfVars, renderVars >>

\* the bytes to_sql wrote are the column value from_sql is given when the
\* row is read back (tests/hstore.rs, metadata)
ReadBack ==
    /\ op = "to_sql"
    /\ pc = "done"
    /\ result.tag = "Ok"
    /\ op' = "from_sql"
    /\ bytes' = out
    /\ pc' = "from_sql"
    /\ buf' = << >>
    /\ count' = 0
    /\ result' = Pending
    /\ UNCHANGED << wire, pos, out >>
    /\ UNCHANGED << extVars, decodeVars, selfVars, renderVars >>

(***************************************************************************)
(* QueryFragment::walk_ast                                                 *)
(***************************************************************************)
\* the texts pushed: "'", "=>", ",", "'::hstore"
Quote == << 39 >>
Arrow == << 61, 62 >>
Comma == << 44 >>
Cast == << 39, 58, 58, 104, 115, 116, 111, 114, 101 >>

\* lines 369-371
WalkAstStart ==
    /\ pc = "walk_ast"
    /\ max' = Cardinality(self)
    /\ ind' = 0
    /\ sql' = Quote
    /\ pos' = 1
    /\ pc' = "walk_ast_loop"
    /\ UNCHANGED << op, wire, bytes, buf, count, result, out >>
    /\ UNCHANGED << extVars, decodeVars, selfVars >>

\* (mutant) keys and values are put between double quotes
WalkAstPairQuoted ==
    /\ pc = "walk_ast_loop"
    /\ pos <= Len(iter)
    /\ sql' = sql \o <<34>> \o iter[pos][1] \o <<34>> \o << 61, 62 >>
                  \o <<34>> \o iter[pos][2] \o <<34>> \o << 44 >>
    /\ ind' = ind + 1
    /\ pos' = pos + 1
    /\ UNCHANGED << op, wire, bytes, pc, buf, count, result, out, max >>
    /\ UNCHANGED << extVars, decodeVars, selfVars >>

\* the test of line 375, "if not the last element"
NotLast(i, n) == i # n

\* lines 372-380: one pair
WalkAstPair ==
    /\ pc = "walk_ast_loop"
    /\ pos <= Len(iter)
    /\ sql' = sql \o iter[pos][1] \o Arrow \o iter[pos][2]
                  \o (IF NotLast(ind, max) THEN Comma ELSE << >>)
    /\ ind' = ind + 1
    /\ pos' = pos + 1
    /\ UNCHANGED << op, wire, bytes, pc, buf, count, result, out, max >>
    /\ UNCHANGED << extVars, decodeVars, selfVars >>

\* lines 381-382
WalkAstEnd ==
    /\ pc = "walk_ast_loop"
    /\ pos > Len(iter)
    /\ sql' = sql \o Cast
    /\ Return(Ok(EmptyMap))
    /\ UNCHANGED << op, wire, bytes, buf, count, pos, out, max, ind >>
    /\ UNCHANGED << extVars, decodeVars, selfVars >>

(***************************************************************************)
(* dsl.rs: the operators of mod predicates and HstoreOpExtensions;         *)
(* functions.rs: hstore_to_array and hstore_delete_matching                *)
(***************************************************************************)
\* a right operand of each SQL type
HstoreOperand(m) == [kind |-> "Hstore", map |-> m, text |-> << >>, arr |-> << >>]
TextOperand(t) == [kind |-> "Text", map |-> EmptyMap, text |-> t, arr |-> << >>]
ArrayOperand(a) == [kind |-> "Array<Text>", map |-> EmptyMap, text |-> << >>, arr |-> a]

\* diesel::infix_operator!(name, token, type, backend: Pg)
InfixOperator(name, token, ty, l, r) ==
    [name |-> name, token |-> token, fix |-> "infix", ty |-> ty, left |-> l, right |-> r]
\* diesel::prefix_operator!(name, token, type, backend: Pg)
PrefixOperator(name, token, ty, l) ==
    [name |-> name, token |-> token, fix |-> "prefix", ty |-> ty, left |-> l, right |-> NoOperand]
\* sql_function! { #[sql_name = name] fn ..(h, ..) -> type }
SqlFunction(name, ty, l, r) ==
    [name |-> name, token |-> name, fix |-> "function", ty |-> ty, left |-> l, right |-> r]

\* mod predicates, dsl.rs lines 14-23
HstoreGet(l, r) == InfixOperator("HstoreGet", "->", "Text", l, r)
HstoreGetArray(l, r) == InfixOperator("HstoreGetArray", "->", "Array<Text>", l, r)
HstoreConcat(l, r) == InfixOperator("HstoreConcat", "||", "Hstore", l, r)
\* (mutant) the operator ? declared with the type Text
HstoreHasKeyAsText(l, r) == InfixOperator("HstoreHasKey", "?", "Text", l, r)
HstoreHasKey(l, r) == InfixOperator("HstoreHasKey", "?", "Bool", l, r)
HstoreHasAll(l, r) == InfixOperator("HstoreHasAll", "?&", "Bool", l, r)
HstoreHasAny(l, r) == InfixOperator("HstoreHasAny", "?|", "Bool", l, r)
HstoreLeftSubset(l, r) == InfixOperator("HstoreLeftSubset", "@>", "Bool", l, r)
HstoreRightSubset(l, r) == InfixOperator("HstoreRightSubset", "<@", "Bool", l, r)
HstoreRemove(l, r) == InfixOperator("HstoreRemove", "-", "Hstore", l, r)
HstoreFlatten(l) == PrefixOperator("HstoreFlatten", "%%", "Array<Text>", l)

\* HstoreOpExtensions, dsl.rs lines 38-129
get_value(a, b) == HstoreGet(a, b)
get_array(a, b) == HstoreGetArray(a, b)
concat(a, b) == HstoreConcat(a, b)
has_key(a, b) == HstoreHasKey(a, b)
has_all_keys(a, b) == HstoreHasAll(a, b)
has_any_keys(a, b) == HstoreHasAny(a, b)
\* (mutant) contains built on the operator @>
containsLeftSubset(a, b) == HstoreLeftSubset(a, b)
contains(a, b) == HstoreRightSubset(a, b)
is_contained_by(a, b) == HstoreLeftSubset(a, b)
remove_key(a, b) == HstoreRemove(a, b)
remove_keys(a, b) == HstoreRemove(a, b)
\* (mutant) difference built on the operator ||
differenceConcat(a, b) == HstoreConcat(a, b)
difference(a, b) == HstoreRemove(a, b)
to_flat_array(a) == HstoreFlatten(a)

\* functions.rs lines 20-23 and 92-97
\* (mutant) hstore_to_array given the SQL name akeys
hstore_to_arrayKeys(h) == SqlFunction("akeys", "Array<Text>", h, NoOperand)
hstore_to_array(h) == SqlFunction("hstore_to_array", "Array<Text>", h, NoOperand)
hstore_delete_matching(h, o) == SqlFunction("delete", "Hstore", h, o)

\* the SQL type the right operand is bound to: T: AsExpression<..> in
\* dsl.rs, the argument type in functions.rs; "none" without right operand
OperandType(m) ==
    CASE m \in {"get_value", "has_key", "remove_key"} -> "Text"
      [] m \in {"get_array", "has_all_keys", "has_any_keys", "remove_keys"} -> "Array<Text>"
      [] m \in {"concat", "contains", "is_contained_by", "difference",
                "hstore_delete_matching"} -> "Hstore"
      [] OTHER -> "none"

\* the node the builder m returns for the operands a and b
Build(m, a, b) ==
    CASE m = "get_value" -> get_value(a, b)
      [] m = "get_array" -> get_array(a, b)
      [] m = "concat" -> concat(a, b)
      [] m = "has_key" -> has_key(a, b)
      [] m = "has_all_keys" -> has_all_keys(a, b)
      [] m = "has_any_keys" -> has_any_keys(a, b)
      [] m = "contains" -> contains(a, b)
      [] m = "is_contained_by" -> is_contained_by(a, b)
      [] m = "remove_key" -> remove_key(a, b)
      [] m = "remove_keys" -> remove_keys(a, b)
      [] m = "difference" -> difference(a, b)
      [] m = "to_flat_array" -> to_flat_array(a)
      [] m = "hstore_to_array" -> hstore_to_array(a)
      [] m = "hstore_delete_matching" -> hstore_delete_matching(a, b)

\* the call of a builder: it compiles only when the right operand has the
\* SQL type of the bound, and then returns the node
DslBuild ==
    /\ pc = "dsl"
    /\ IF other.kind = OperandType(method)
       THEN /\ node' = Build(method, self, other)
            /\ pc' = "dsl_render"
            /\ UNCHANGED result
       ELSE /\ Return(Err("the trait bound AsExpression is not satisfied"))
            /\ UNCHANGED node
    /\ UNCHANGED << op, wire, bytes, buf, count, pos, out, s_len, method, other, query, answer >>
    /\ UNCHANGED << decodeVars, selfVars, renderVars >>

\* the query text of a node: left token right, token left, name(left, right)
QueryText(n) ==
    CASE n.fix = "infix" -> << "left", n.token, "right" >>
      [] n.fix = "prefix" -> << n.token, "left" >>
      [] n.fix = "function" ->
            IF n.right.kind = "none" THEN << n.token, "(", "left", ")" >>
            ELSE << n.token, "(", "left", ",", "right", ")" >>

\* the node is rendered into the query
DslRender ==
    /\ pc = "dsl_render"
    /\ query' = QueryText(node)
    /\ pc' = "dsl_execute"
    /\ UNCHANGED << op, wire, bytes, buf, count, pos, out, result, s_len, method, other, node, answer >>
    /\ UNCHANGED << decodeVars, selfVars, renderVars >>

BoolAnswer(b) == [kind |-> "Bool", bool |-> b, map |-> EmptyMap, text |-> None, arr |-> << >>]
HstoreAnswer(m) == [kind |-> "Hstore", bool |-> FALSE, map |-> m, text |-> None, arr |-> << >>]
ArrayAnswer(a) == [kind |-> "Array<Text>", bool |-> FALSE, map |-> EmptyMap, text |-> None, arr |-> a]
TextAnswer(t) == [kind |-> "Text", bool |-> FALSE, map |-> EmptyMap, text |-> t, arr |-> << >>]

\* the elements of an array
Elements(a) == { a[i] : i \in DOMAIN a }

\* key, value, key, value, .. for the pairs in the order o
RECURSIVE Alternating(_)
Alternating(o) ==
    IF o = << >> THEN << >> ELSE << Head(o)[1], Head(o)[2] >> \o Alternating(Tail(o))

\* what the server answers for a node, as the tests of tests/hstore.rs
\* and the operator documentation quoted in dsl.rs have it
ServerAnswers(n) ==
    LET l == n.left
        r == n.right
    IN  CASE n.token = "<@" -> { BoolAnswer(l \subseteq r.map) }
          [] n.token = "@>" -> { BoolAnswer(r.map \subseteq l) }
          [] n.token = "?" -> { BoolAnswer(r.text \in KeysOf(l)) }
          [] n.token = "?&" -> { BoolAnswer(Elements(r.arr) \subseteq KeysOf(l)) }
          [] n.token = "?|" -> { BoolAnswer(Elements(r.arr) \cap KeysOf(l) # {}) }
          [] n.token = "||" ->
                { HstoreAnswer({ p \in l : p[1] \notin KeysOf(r.map) } \cup r.map) }
          [] n.token \in {"-", "delete"} /\ r.kind = "Hstore" -> { HstoreAnswer(l \ r.map) }
          [] n.token \in {"-", "delete"} /\ r.kind = "Text" ->
                { HstoreAnswer({ p \in l : p[1] # r.text }) }
          [] n.token \in {"-", "delete"} /\ r.kind = "Array<Text>" ->
                { HstoreAnswer({ p \in l : p[1] \notin Elements(r.arr) }) }
          [] n.token \in {"%%", "hstore_to_array"} ->
                { ArrayAnswer(Alternating(o)) : o \in Orders(l) }
          [] n.token = "akeys" ->
                { ArrayAnswer([i \in DOMAIN o |-> o[i][1]]) : o \in Orders(l) }
          [] n.token = "->" /\ r.kind = "Text" ->
                { TextAnswer(IF r.text \in KeysOf(l)
                             THEN Some((CHOOSE p \in l : p[1] = r.text)[2])
                             ELSE None) }
          [] OTHER -> {}

\* the query is run and the row read
DslExecute ==
    /\ pc = "dsl_execute"
    /\ answer' \in ServerAnswers(node)
    /\ Return(Ok(EmptyMap))
    /\ UNCHANGED << op, wire, bytes, buf, count, pos, out, s_len, method, other, node, query >>
    /\ UNCHANGED << decodeVars, selfVars, renderVars >>

\* HstoreIterator::size_hint, lines 507-510
SizeHint == << remaining, Some(remaining) >>

Next ==
    \/ FromSqlBytes
    \/ FromSqlReadCount
    \/ FromSqlCheckCount
    \/ Consume
    \/ ConsumeReadKeyLen
    \/ ConsumeCheckKeyLen
    \/ ConsumeSplitKey
    \/ ConsumeReadValueLen
    \/ ConsumeSplitValue
    \/ NextEntry
    \/ WritePascalStringLong
    \/ ToSqlStart
    \/ ToSqlPair
    \/ ToSqlCount
    \/ ToSqlWrite
    \/ ReadBack
    \/ WalkAstStart
    \/ WalkAstPair
    \/ WalkAstEnd
    \/ DslBuild
    \/ DslRender
    \/ DslExecute

Spec == Init /\ [][Next]_vars

(***************************************************************************)
(* Properties                                                              *)
(***************************************************************************)
\* from_sql runs on a buffer laid out as `wire` describes
WireRun == op = "from_sql" /\ IsSome(bytes) /\ ~IsSome(out)
\* from_sql runs on the bytes to_sql wrote for self
ReadBackRun == op = "from_sql" /\ IsSome(out)
\* from_sql has ended
Decoded == op = "from_sql" /\ pc = "done"
\* the count prefix of the described buffer is whole
WholePrefix == Len(wire.prefix) = 4
Entries == wire.entries
Present(e) == e.vlen >= 0

\* C1: round trip. Decoding the bytes to_sql wrote for a Container, iterated
\* in any order, succeeds and returns a Container with exactly the pairs of
\* the original.
C1_RoundTrip ==
    (ReadBackRun /\ pc = "done") => result = Ok(self)

C1_Witness ==
    /\ ReadBackRun
    /\ pc = "done"
    /\ Cardinality(self) = 2
    /\ iter[1][1] = <<98>>
    /\ iter[2][1] = <<97>>
    /\ result = Ok(self)

\* entry i carries the NULL sentinel and is the only entry of its key
SoleNull(i) ==
    /\ Entries[i].vlen = -1
    /\ \A j \in DOMAIN Entries : j # i => Entries[j].k # Entries[i].k

\* C2 as stated: after a successful decode of a buffer in which the only
\* entry of a key carries the value length -1, that key is not in the
\* Container and every entry with a present value is in the Container with
\* its value.
C2_NullDrop_Original ==
    (WireRun /\ Decoded /\ result.tag = "Ok") =>
        \A i \in DOMAIN Entries :
            SoleNull(i) =>
                /\ Entries[i].k \notin KeysOf(result.val)
                /\ \A j \in DOMAIN Entries :
                      Present(Entries[j])
                      => <<Entries[j].k, Entries[j].v>> \in result.val

\* entry j has a present value and no later entry with a present value has
\* its key
LastPresent(j) ==
    /\ Present(Entries[j])
    /\ \A l \in DOMAIN Entries :
          (l > j /\ Present(Entries[l])) => Entries[l].k # Entries[j].k

\* C2 amended: after a successful decode of a buffer in which the only entry
\* of a key carries the value length -1, that key is not in the Container,
\* and every entry with a present value whose key no later entry with a
\* present value repeats is in the Container with its value.
C2_NullDrop ==
    (WireRun /\ Decoded /\ result.tag = "Ok") =>
        \A i \in DOMAIN Entries :
            SoleNull(i) =>
                /\ Entries[i].k \notin KeysOf(result.val)
                /\ \A j \in DOMAIN Entries :
                      LastPresent(j)
                      => <<Entries[j].k, Entries[j].v>> \in result.val

\* a NULL entry first, two entries with a value after it
C2_Witness ==
    /\ WireRun /\ Decoded /\ result.tag = "Ok"
    /\ Len(Entries) = 3
    /\ SoleNull(1)
    /\ Present(Entries[2])
    /\ Present(Entries[3])
    /\ result.val = { <<Entries[3].k, Entries[3].v>> }

\* C3 as stated: a decode that met a value length below -1 does not return a
\* Container.
C3_OnlyMinusOneIsNull ==
    (/\ WireRun /\ Decoded /\ WholePrefix
     /\ wire.n = Len(Entries)
     /\ \E i \in DOMAIN Entries : Entries[i].vlen < -1)
    => result.tag = "Err"

\* C4: a buffer with count N >= 0, N well-formed entries and at least one
\* more byte is rejected with an error, also when N = 0 and when the last
\* entry is a NULL entry; a Container is returned only when the buffer is
\* exhausted after the N-th entry.
C4_TrailingData ==
    /\ (/\ WireRun /\ Decoded /\ WholePrefix
        /\ wire.n = Len(Entries)
        /\ \A i \in DOMAIN Entries : Entries[i].vlen >= -1
        /\ wire.rest # << >>)
       => result = Err("invalid buffer size")
    /\ (Decoded /\ result.tag = "Ok")
       => /\ buf = << >>
          /\ remaining = 0
          /\ WireRun => (wire.rest = << >> /\ wire.n = Len(Entries))

\* trailing bytes after a last entry that is a NULL entry
C4_Witness ==
    /\ WireRun /\ Decoded /\ WholePrefix
    /\ wire.n = 2
    /\ Len(Entries) = 2
    /\ Present(Entries[1])
    /\ Entries[2].vlen = -1
    /\ wire.rest = <<0>>
    /\ result.tag = "Err"

\* C5: a buffer that declares more entries than it holds, and ends right
\* after the last entry it holds, is rejected with an error.
C5_CountMismatch ==
    (/\ WireRun /\ Decoded /\ WholePrefix
     /\ wire.n > Len(Entries)
     /\ wire.rest = << >>)
    => result.tag = "Err"

C5_Witness ==
    /\ WireRun /\ Decoded /\ WholePrefix
    /\ wire.n = 2
    /\ Len(Entries) = 1
    /\ Present(Entries[1])
    /\ wire.rest = << >>
    /\ map = { <<Entries[1].k, Entries[1].v>> }
    /\ result.tag = "Err"

\* the buffer holds a key length with the sign bit set where the next entry
\* is due
NegKeyLenDue ==
    /\ WholePrefix
    /\ wire.n > Len(Entries)
    /\ Len(wire.rest) >= 4
    /\ wire.rest[1] >= 128

\* C6: a negative count, and a negative key length, end the decode with an
\* error; the read position then stands right behind the four bytes of the
\* offending number, and no negative key length reaches split_at.
C6_NegativeLength ==
    /\ (WireRun /\ Decoded /\ WholePrefix /\ wire.n < 0)
       => /\ result = Err("Invalid entry count for hstore")
          /\ buf = Drop(Unwrap(bytes), 4)
    /\ (WireRun /\ Decoded /\ NegKeyLenDue)
       => /\ result = Err("invalid key length")
          /\ buf = Drop(wire.rest, 4)
    /\ (pc = "split_key") => key_len >= 0
    /\ (pc \in {"consume", "read_key_len"}) => count >= 0

\* a negative key length met after two entries were decoded
C6_Witness ==
    /\ WireRun /\ Decoded /\ NegKeyLenDue
    /\ Len(Entries) = 2
    /\ key_len = -5
    /\ result.tag = "Err"

\* C7 as stated: from_sql returns either a complete Container (every entry
\* consumed, the buffer exhausted) or an error that carries no entry.
C7_AllOrNothing ==
    Decoded =>
        \/ result = Ok(map) /\ remaining = 0 /\ buf = << >>
        \/ result.tag = "Err" /\ result.val = EmptyMap

\* no entry of the buffer has a negative value length other than -1
SentinelOnly == \A i \in DOMAIN Entries : Entries[i].vlen >= -1

\* C8 as stated: an absent column value is an error, and an empty Container
\* is returned only for the buffer that holds the count 0 and nothing else
\* (weighed on the buffers whose negative value lengths are all -1).
C8_AbsentValue_Original ==
    /\ (Decoded /\ ~IsSome(bytes)) => result.tag = "Err"
    /\ (Decoded /\ result = Ok(EmptyMap) /\ SentinelOnly)
       => bytes = Some(<< 0, 0, 0, 0 >>)

\* C8 amended: an absent column value is an error, and an empty Container is
\* returned only for a buffer that is exhausted after its declared number of
\* entries, each of which has a negative value length (the count 0 with no
\* further byte included).
C8_AbsentValue ==
    /\ (Decoded /\ ~IsSome(bytes)) => result = Err("NotFound")
    /\ (Decoded /\ result = Ok(EmptyMap))
       => /\ IsSome(bytes)
          /\ WireRun => /\ WholePrefix
                        /\ wire.rest = << >>
                        /\ wire.n = Len(Entries)
                        /\ \A i \in DOMAIN Entries : Entries[i].vlen < 0
          /\ ReadBackRun => (self = EmptyMap /\ bytes = Some(<< 0, 0, 0, 0 >>))

\* an empty Container decoded from two entries with the NULL sentinel
C8_Witness ==
    /\ WireRun /\ Decoded
    /\ Len(Entries) = 2
    /\ \A i \in DOMAIN Entries : Entries[i].vlen = -1
    /\ result = Ok(EmptyMap)

\* the wire entries to_sql is to write for the pairs in iteration order
RECURSIVE PairBytes(_)
PairBytes(ps) ==
    IF ps = << >> THEN << >>
    ELSE EntryBytes([k |-> Head(ps)[1], vlen |-> Len(Head(ps)[2]), v |-> Head(ps)[2]])
         \o PairBytes(Tail(ps))

\* value of four big-endian bytes with the sign bit clear
Unsigned(b) == ((b[1] * 256 + b[2]) * 256 + b[3]) * 256 + b[4]

\* C9: the first four bytes to_sql hands to the writer hold the number of
\* pairs written behind them, which is the number of entries of the
\* Container; the writer receives nothing before the count is in place.
C9_CountPrefix ==
    /\ (op = "to_sql" /\ pc # "done") => ~IsSome(out)
    /\ (op = "to_sql" /\ pc \in {"to_sql_write", "done"})
       => /\ Take(buf, 4)[1] < 128
          /\ Unsigned(Take(buf, 4)) = Cardinality(self)
          /\ count = Cardinality(self)
          /\ Drop(buf, 4) = PairBytes(iter)
    /\ (op = "to_sql" /\ pc = "done") => out = Some(buf)

C9_Witness ==
    /\ op = "to_sql"
    /\ pc = "done"
    /\ Cardinality(self) = 2
    /\ Take(Unwrap(out), 4) = << 0, 0, 0, 2 >>

\* the segments k=>v of the pairs, one comma between adjacent segments
RECURSIVE Joined(_)
Joined(ps) ==
    IF ps = << >> THEN << >>
    ELSE Head(ps)[1] \o Arrow \o Head(ps)[2]
         \o (IF Tail(ps) # << >> THEN Comma ELSE << >>)
         \o Joined(Tail(ps))

\* C10 as stated: walk_ast succeeds and the text is a quote, the segments
\* joined by single commas with none after the last, then '::hstore.
C10_LiteralFormat ==
    (op = "walk_ast" /\ pc = "done")
    => /\ result.tag = "Ok"
       /\ sql = Quote \o Joined(iter) \o Cast

\* the described buffer is well formed: a whole count prefix, as many
\* entries as declared, nothing behind them, no value length below -1
WellFormedWire ==
    /\ WireRun
    /\ WholePrefix
    /\ wire.n = Len(Entries)
    /\ wire.rest = << >>
    /\ SentinelOnly

\* C16 as stated: from_sql hands a Container or an error value to its
\* caller for every buffer; it never panics.
C16_DecodeTotal ==
    (op = "from_sql" /\ pc = "done") => result.tag \in {"Ok", "Err"}

\* the prefix p is the non-negative big-endian number u
PrefixIs(p, u) ==
    /\ p[1] < 128
    /\ p[1] * 256 + p[2] = u.hi
    /\ p[3] * 256 + p[4] = u.lo

\* C17 as stated: the length prefix write_pascal_string writes is not
\* negative and equals the byte length of the string, whatever the length.
C17_LengthPrefix ==
    (op = "write_pascal_string" /\ pc = "done") => PrefixIs(Take(buf, 4), s_len)

\* what walk_ast pushes for the pairs when every key and value is copied
\* as it is
RECURSIVE Spliced(_)
Spliced(ps) ==
    IF ps = << >> THEN << >>
    ELSE Head(ps)[1] \o Arrow \o Head(ps)[2] \o Comma \o Spliced(Tail(ps))

\* the Container {a: "1,b=>2"}
Injected == { << <<97>>, Spliceable >> }

\* C18: walk_ast copies every key and value into the text as it is, and the
\* text rendered for the Container {a: "1,b=>2"} is also the text rendered
\* for another Container.
C18_UnescapedSplicing ==
    (op = "walk_ast" /\ pc = "done") =>
        /\ sql = Quote \o Spliced(iter) \o Cast
        /\ self = Injected =>
              \E c \in Containers : \E o \in Orders(c) :
                  /\ c # self
                  /\ Cardinality(c) = 2
                  /\ sql = Quote \o Spliced(o) \o Cast

C18_Witness ==
    /\ op = "walk_ast"
    /\ pc = "done"
    /\ self = Injected
    /\ sql = Quote \o <<97>> \o Arrow \o <<49>> \o Comma
                   \o <<98>> \o Arrow \o <<50>> \o Comma \o Cast

\* the entries with the NULL sentinel
NullEntries == { i \in DOMAIN Entries : Entries[i].vlen = -1 }

\* C19: a well-formed buffer decodes, also with repeated keys, to the
\* Container that maps every key with a present value to the value of its
\* last occurrence with a present value; its size is the number of such
\* keys, at most the number of entries less the NULL entries.
C19_DuplicateKeys ==
    (WellFormedWire /\ Decoded) =>
        /\ result.tag = "Ok"
        /\ result.val =
              { <<Entries[j].k, Entries[j].v>> : j \in { l \in DOMAIN Entries : LastPresent(l) } }
        /\ Cardinality(result.val)
              = Cardinality({ Entries[j].k : j \in { l \in DOMAIN Entries : Present(Entries[l]) } })
        /\ Cardinality(result.val) <= wire.n - Cardinality(NullEntries)

\* one key three times: two present values, then NULL
C19_Witness ==
    /\ WellFormedWire /\ Decoded
    /\ Len(Entries) = 3
    /\ Entries[1] = [k |-> <<97>>, vlen |-> 1, v |-> <<49>>]
    /\ Entries[2] = [k |-> <<97>>, vlen |-> 1, v |-> <<50>>]
    /\ Entries[3] = [k |-> <<97>>, vlen |-> -1, v |-> << >>]
    /\ result = Ok({ << <<97>>, <<50>> >> })

\* the entries of a well-formed buffer the iterator has not consumed yet
Unconsumed == SubSeq(Entries, wire.n - remaining + 1, wire.n)

\* the positions at which the HstoreIterator exists
IteratorPcs ==
    { "consume", "read_key_len", "check_key_len", "split_key", "read_value_len",
      "split_value", "next" }

\* C20 as stated: remaining lies between 0 and the declared count, one less
\* for every entry consumed, and size_hint is the number of items the calls
\* of next() still yield.
C20_Bookkeeping ==
    /\ (op = "from_sql" /\ pc \in IteratorPcs) => (0 <= remaining /\ remaining <= count)
    /\ (WellFormedWire /\ pc = "consume")
       => /\ buf = Flatten(Unconsumed)
          /\ SizeHint[1] = Cardinality({ i \in DOMAIN Unconsumed : Present(Unconsumed[i]) })
          /\ SizeHint[2] = Some(SizeHint[1])

\* a builder was called and its node exists
Built == op = "dsl" /\ pc \in {"dsl_render", "dsl_execute", "done"} /\ node # NoNode
\* the query of the node was run
Answered == op = "dsl" /\ pc = "done" /\ result.tag = "Ok"
\* every entry of a is in b with an equal value
EachEntryIn(a, b) == \A p \in a : \E q \in b : q[1] = p[1] /\ q[2] = p[2]

C12_DocumentedSubset ==
    /\ (Built /\ method = "contains")
       => /\ node.token = "@>"
          /\ Answered => answer.bool = EachEntryIn(other.map, self)
    /\ (Built /\ method = "is_contained_by")
       => /\ node.token = "<@"
          /\ Answered => answer.bool = EachEntryIn(self, other.map)

\* C13: difference (the operator -) and hstore_delete_matching (the function
\* delete) answer with exactly the entries of the left map that the right
\* map does not hold with the same value.
C13_EntrywiseRemoval ==
    /\ (Built /\ method = "difference") => (node.token = "-" /\ node.fix = "infix")
    /\ (Built /\ method = "hstore_delete_matching")
       => (node.token = "delete" /\ node.fix = "function")
    /\ (Answered /\ method \in {"difference", "hstore_delete_matching"})
       => /\ answer.kind = "Hstore"
          /\ \A p \in self : p \in answer.map <=> ~EachEntryIn({p}, other.map)
          /\ answer.map \subseteq self

\* a key of the right map with another value is kept, an equal entry goes
C13_Witness ==
    /\ Answered
    /\ method = "difference"
    /\ self = { << <<97>>, <<49>> >>, << <<98>>, <<50>> >> }
    /\ other.map = { << <<97>>, <<50>> >>, << <<98>>, <<50>> >> }
    /\ answer.map = { << <<97>>, <<49>> >> }

\* the result types and right operand types of the catalog
CatalogType(m) ==
    CASE m \in {"has_key", "has_all_keys", "has_any_keys"} -> "Bool"
      [] m \in {"concat", "remove_key", "remove_keys", "difference"} -> "Hstore"
      [] m = "get_value" -> "Text"
CatalogOperand(m) ==
    CASE m \in {"has_key", "remove_key", "get_value"} -> "Text"
      [] m \in {"has_all_keys", "has_any_keys", "remove_keys"} -> "Array<Text>"
      [] m \in {"concat", "difference"} -> "Hstore"
Typed ==
    { "has_key", "has_all_keys", "has_any_keys", "concat", "remove_key", "remove_keys",
      "difference", "get_value" }

\* C14: every node has the result type declared for it, and a call whose
\* right operand has another type than the one listed is rejected before a
\* node or any query text exists.
C14_OperatorTyping ==
    (op = "dsl" /\ method \in Typed) =>
        /\ Built => (node.ty = CatalogType(method) /\ other.kind = CatalogOperand(method))
        /\ (other.kind # CatalogOperand(method))
           => (node = NoNode /\ query = << >> /\ answer = NoAnswer /\ result.tag # "Ok")
        /\ (other.kind = CatalogOperand(method) /\ pc # "dsl") => Built

\* concat of a map with a text array is rejected
C14_Witness ==
    /\ op = "dsl"
    /\ pc = "done"
    /\ method = "concat"
    /\ other.kind = "Array<Text>"
    /\ Len(other.arr) = 2
    /\ result.tag = "Err"
    /\ query = << >>

\* C15: to_flat_array and hstore_to_array answer with 2 * |m| elements, a
\* key of m at every odd place, its own value right after it, and every
\* entry of m exactly once.
C15_Flattening ==
    (Answered /\ method \in {"to_flat_array", "hstore_to_array"}) =>
        /\ answer.kind = "Array<Text>"
        /\ Len(answer.arr) = 2 * Cardinality(self)
        /\ \A i \in 1..Cardinality(self) :
              << answer.arr[2 * i - 1], answer.arr[2 * i] >> \in self
        /\ \A p \in self :
              Cardinality({ i \in 1..Cardinality(self) :
                              << answer.arr[2 * i - 1], answer.arr[2 * i] >> = p }) = 1

C15_Witness ==
    /\ Answered
    /\ method = "hstore_to_array"
    /\ self = { << <<97>>, <<49>> >>, << <<98>>, <<50>> >> }
    /\ answer.arr = << <<97>>, <<49>>, <<98>>, <<50>> >>

=============================================================================
